---- MODULE Spec2Model ----
(***************************************************************************)
(* A model of streamlit_app.py: the photo location analysis script.        *)
(*                                                                         *)
(* One run of the script is a linear pass: sort the uploaded files by the  *)
(* timestamp in their names, extract the GPS position of each file, ask    *)
(* the OSRM service for the route from the first position to every         *)
(* position, sort the rows by distance and render them.                    *)
(*                                                                         *)
(* Python values that may be None are records with a "type" field, so      *)
(* that a value and None can always be compared.  Decimal degrees are      *)
(* kept in units of 1/3600 degree, which makes d + m/60 + s/3600 exact.    *)
(* Distances and durations are kept in units of 1/1000; a value rounded    *)
(* to two decimals is a multiple of 10.                                    *)
(***************************************************************************)
EXTENDS Integers, Sequences, FiniteSets, TLC

VARIABLES
    uploaded_files,    \* the files the uploader widget returned, in upload order
    sorted_files,      \* line 112/114
    pc,                \* the position of the script
    coordinates,       \* line 117
    thumbnails,        \* line 118
    valid_images,      \* line 119
    valid_data,        \* line 120
    reference_point,   \* line 148
    distances,         \* line 151
    sorted_distances,  \* line 166
    requests,          \* the HTTP requests sent so far (line 72)
    messages,          \* what st.error / st.warning / st.info have shown so far
    outputs,           \* what lines 168-236 have rendered
    idx,               \* the position of the running for loop
    route_returns,     \* history: what each call of line 153 returned
    arg,               \* the argument of a function called on its own
    ret                \* what that call returned

vars == <<uploaded_files, sorted_files, pc, coordinates, thumbnails, valid_images,
          valid_data, reference_point, distances, sorted_distances, requests,
          messages, outputs, idx, route_returns, arg, ret>>

(***************************************************************************)
(* Bounds of the model.                                                    *)
(***************************************************************************)
MaxFiles == 2      \* at most this many files are uploaded
MaxDeg == 1        \* degrees of a GPS position range over 0..MaxDeg
MaxMin == 1        \* minutes range over 0..MaxMin
MaxSec == 1        \* seconds range over 0..MaxSec
MaxTick == 1       \* the clock advances 0..MaxTick between two datetime.now()
MaxVal == 1        \* the numbers of a response range over 0..MaxVal
NowStart == 10     \* the clock when the script starts

(***************************************************************************)
(* Python values.                                                          *)
(***************************************************************************)
None == [type |-> "NoneType"]

Float(x) == [type |-> "float", v |-> x]

Tuple2(a, b) == [type |-> "tuple", a |-> a, b |-> b]

IsNone(x) == x.type = "NoneType"

RECURSIVE SumSeq(_)
SumSeq(s) == IF s = <<>> THEN 0 ELSE Head(s) + SumSeq(Tail(s))

(***************************************************************************)
(* Uploaded image bytes.  What the libraries do with the bytes is a field  *)
(* of the record: whether PIL verifies them, whether they start with       *)
(* b"ftypheic", whether pillow_heif reads them, whether the exif parser    *)
(* accepts them, and the GPS attributes the parsed image has.  "pic" is    *)
(* the picture the bytes show.                                             *)
(***************************************************************************)
GpsAttrs == {"gps_latitude", "gps_longitude", "gps_latitude_ref", "gps_longitude_ref"}

DMS == (0..MaxDeg) \X (0..MaxMin) \X (0..MaxSec)

LatRefs == {"N", "S"}

LonRefs == {"E", "W"}

FullTags == [gps_latitude : DMS, gps_longitude : DMS,
             gps_latitude_ref : LatRefs, gps_longitude_ref : LonRefs]

Restrict(f, A) == [k \in A |-> f[k]]

Bytes(verifies, ftypheic, heif, exif, tags, pic) ==
    [type |-> "bytes", verifies |-> verifies, ftypheic |-> ftypheic, heif |-> heif,
     exif |-> exif, tags |-> tags, pic |-> pic]

\* the error message of line 33
HeicError == [level |-> "error", text |-> "Gagal konversi HEIC", about |-> ""]

\* lines 20-34: the JPEG that image.save writes carries the picture and no
\* EXIF segment (save is called without exif=), so its GPS attributes are gone
convert_heic_to_jpeg(image_bytes) ==
    IF image_bytes.heif
    THEN [ret |-> Bytes(TRUE, FALSE, FALSE, TRUE, Restrict(image_bytes.tags, {}),
                        image_bytes.pic),
          msgs |-> <<>>]
    ELSE [ret |-> None, msgs |-> <<HeicError>>]

\* a mutant of to_decimal: the seconds are divided by 60 like the minutes
to_decimal_seconds_as_minutes(dms) == dms[1] * 3600 + dms[2] * 60 + dms[3] * 60

\* lines 56 and 59: dms[0] + dms[1]/60 + dms[2]/3600, in units of 1/3600 degree
to_decimal(dms) == dms[1] * 3600 + dms[2] * 60 + dms[3]

\* lines 57-58: negate unless the reference is the positive hemisphere
apply_ref(decimal, ref, positive) == IF ref # positive THEN -decimal ELSE decimal

Returned(coords, bytes, msgs) ==
    [raised |-> FALSE, coords |-> coords, bytes |-> bytes, msgs |-> msgs]

Raised(exc, msgs) ==
    [raised |-> TRUE, exc |-> exc, coords |-> None, bytes |-> None, msgs |-> msgs]

\* lines 50-62, given the parsed image's attributes and the bytes parsed
read_gps(tags, image_bytes, msgs) ==
    IF "gps_latitude" \notin DOMAIN tags
    THEN Returned(None, None, msgs)
    ELSE IF "gps_longitude" \notin DOMAIN tags            \* line 53 raises
    THEN Raised("AttributeError", msgs)
    ELSE IF "gps_latitude_ref" \notin DOMAIN tags         \* line 54 raises
    THEN Raised("AttributeError", msgs)
    ELSE IF "gps_longitude_ref" \notin DOMAIN tags        \* line 55 raises
    THEN Raised("AttributeError", msgs)
    ELSE Returned(
           Tuple2(apply_ref(to_decimal(tags["gps_latitude"]),
                            tags["gps_latitude_ref"], "N"),
                  apply_ref(to_decimal(tags["gps_longitude"]),
                            tags["gps_longitude_ref"], "E")),
           image_bytes, msgs)

\* lines 46-62
parse_exif(image_bytes, msgs) ==
    IF ~image_bytes.exif
    THEN Returned(None, None, msgs)
    ELSE read_gps(image_bytes.tags, image_bytes, msgs)

\* lines 37-62
extract_coordinates(image_bytes) ==
    IF ~image_bytes.verifies
    THEN Returned(None, None, <<>>)
    ELSE IF image_bytes.ftypheic
    THEN LET c == convert_heic_to_jpeg(image_bytes)
         IN  IF IsNone(c.ret)
             THEN Returned(None, None, c.msgs)
             ELSE parse_exif(c.ret, c.msgs)
    ELSE parse_exif(image_bytes, <<>>)

(***************************************************************************)
(* The OSRM service.  A response is what requests.get does with the URL:   *)
(* it raises, or it answers with a status code and a body that is JSON or  *)
(* not.  A JSON object is a function from its keys; a JSON number is a     *)
(* float and JSON null is None.                                            *)
(***************************************************************************)
Response(raises, status_code, is_json, data) ==
    [raises |-> raises, status_code |-> status_code, is_json |-> is_json, data |-> data]

Error(text) == [level |-> "error", text |-> text, about |-> ""]

\* line 68: the coordinates of the URL, longitude before latitude
osrm_coords(origin, destination) ==
    [origin |-> <<origin.b, origin.a>>, destination |-> <<destination.b, destination.a>>]

Failed(text) == [ret |-> <<None, None>>, msgs |-> <<Error(text)>>]

\* a mutant of read_route: the code field of the body is not looked at
read_route_ignoring_code(data) ==
    IF "routes" \notin DOMAIN data
    THEN Failed("Terjadi kesalahan")
    ELSE IF Len(data["routes"]) = 0
    THEN Failed("Terjadi kesalahan")
    ELSE IF "distance" \notin DOMAIN data["routes"][1]
    THEN Failed("Terjadi kesalahan")
    ELSE IF "duration" \notin DOMAIN data["routes"][1]
    THEN Failed("Terjadi kesalahan")
    ELSE [ret |-> <<data["routes"][1]["distance"], data["routes"][1]["duration"]>>,
          msgs |-> <<>>]

\* lines 75-82, given the parsed body
read_route(data) ==
    IF "code" \notin DOMAIN data
    THEN Failed("Terjadi kesalahan")                       \* KeyError, line 86
    ELSE IF data["code"] # "Ok"
    THEN Failed("Gagal mendapatkan rute")                  \* line 81
    ELSE IF "routes" \notin DOMAIN data
    THEN Failed("Terjadi kesalahan")                       \* KeyError
    ELSE IF Len(data["routes"]) = 0
    THEN Failed("Terjadi kesalahan")                       \* IndexError
    ELSE IF "distance" \notin DOMAIN data["routes"][1]
    THEN Failed("Terjadi kesalahan")                       \* KeyError
    ELSE IF "duration" \notin DOMAIN data["routes"][1]
    THEN Failed("Terjadi kesalahan")                       \* KeyError
    ELSE [ret |-> <<data["routes"][1]["distance"], data["routes"][1]["duration"]>>,
          msgs |-> <<>>]

\* lines 65-88; "sent" is the requests the call made
calculate_osrm_route(origin, destination, response) ==
    LET sent == <<osrm_coords(origin, destination)>>
        r == IF response.raises
             THEN Failed("Terjadi kesalahan")              \* line 86
             ELSE IF response.status_code # 200
             THEN Failed("Error")                          \* line 84
             ELSE IF ~response.is_json
             THEN Failed("Terjadi kesalahan")              \* line 74 raises
             ELSE read_route(response.data)
    IN  [ret |-> r.ret, msgs |-> r.msgs, sent |-> sent]

(***************************************************************************)
(* File names.  A name is the sequence of its parts between the dots.      *)
(* The names the model uploads, with what `'_' in name` and strptime say   *)
(* about them; times are integers, NowStart being the start of the run.    *)
(***************************************************************************)
Stems == {"20240101_000001", "20240101_000002", "20990101_000000", "IMG_0001", "IMG0001"}

Names == {<<s, "jpg">> : s \in Stems}

has_underscore(name) ==
    \E k \in DOMAIN name :
        name[k] \in {"20240101_000001", "20240101_000002", "20990101_000000", "IMG_0001"}

\* datetime.strptime(s, "%Y%m%d_%H%M%S"): the time, or ValueError
strptime(s) ==
    CASE s = "20240101_000001" -> [ok |-> TRUE, t |-> 1]
      [] s = "20240101_000002" -> [ok |-> TRUE, t |-> 2]
      [] s = "20990101_000000" -> [ok |-> TRUE, t |-> 1000]
      [] OTHER -> [ok |-> FALSE, t |-> 0]

\* lines 99-109; now is what datetime.now() returns if it is called
get_file_timestamp(file, now) ==
    IF has_underscore(file.name)
    THEN IF strptime(file.name[1]).ok THEN strptime(file.name[1]).t ELSE now
    ELSE now

(***************************************************************************)
(* sorted(items, key): a stable sort into non-decreasing key order, as an  *)
(* insertion sort over pairs <<key, item>>.                                *)
(***************************************************************************)
\* a mutant of insert_stable: an item goes before the items with an equal key
insert_before_equal(p, s) ==
    LET k == Cardinality({m \in DOMAIN s : s[m][1] < p[1]})
    IN  SubSeq(s, 1, k) \o <<p>> \o SubSeq(s, k + 1, Len(s))

insert_stable(p, s) ==
    LET k == Cardinality({m \in DOMAIN s : s[m][1] <= p[1]})
    IN  SubSeq(s, 1, k) \o <<p>> \o SubSeq(s, k + 1, Len(s))

RECURSIVE sort_pairs(_, _)
sort_pairs(todo, done) ==
    IF todo = <<>> THEN done
    ELSE sort_pairs(Tail(todo), insert_stable(Head(todo), done))

sorted(items, keys) ==
    LET s == sort_pairs([k \in DOMAIN items |-> <<keys[k], items[k]>>], <<>>)
    IN  [k \in DOMAIN s |-> s[k][2]]

\* round(x, 2) of a non-negative x in units of 1/1000: to the nearest multiple
\* of 10, a tie going to the even hundredth
round2(x) ==
    LET q == x \div 10
        r == x % 10
    IN  IF r < 5 THEN 10 * q
        ELSE IF r > 5 THEN 10 * (q + 1)
        ELSE IF q % 2 = 0 THEN 10 * q ELSE 10 * (q + 1)

\* list.index(x): the first position holding x
index(s, x) == CHOOSE k \in DOMAIN s : s[k] = x /\ \A m \in 1..(k - 1) : s[m] # x

(***************************************************************************)
(* The script, lines 90-238.                                               *)
(***************************************************************************)
UploadedFile(file_id, name, data) == [file_id |-> file_id, name |-> name, data |-> data]

Warning(text, name) == [level |-> "warning", text |-> text, about |-> name]

NoGpsWarning(name) == Warning("tidak memiliki data GPS", name)                \* line 143

RouteWarning(name) == Warning("Gagal menghitung rute", name)                  \* line 163

UploadHint == [level |-> "info", text |-> "Silakan upload foto", about |-> ""]  \* line 238

Thumbnail(bytes) == [type |-> "thumbnail", pic |-> bytes.pic]                 \* lines 132-133

\* a mutant of list_append: the element goes to the front of the list
list_insert_front(list, x) == <<x>> \o list

\* list.append, lines 128, 129, 134 and 137
list_append(list, x) == Append(list, x)

\* a mutant of first_point: the last position is taken
last_point(coords) == coords[Len(coords)]

\* line 148: coordinates[0]
first_point(coords) == coords[1]

\* the clock at the k-th key call, the clock advancing by ticks[m] before call m
clock_at(ticks, k) == NowStart + SumSeq(SubSeq(ticks, 1, k))

\* lines 98-114
SortFiles ==
    /\ pc = "sort"
    /\ \E ticks \in [DOMAIN uploaded_files -> 0..MaxTick] :
         sorted_files' =
           IF uploaded_files # <<>>
           THEN sorted(uploaded_files,
                       [k \in DOMAIN uploaded_files |->
                          get_file_timestamp(uploaded_files[k], clock_at(ticks, k))])
           ELSE <<>>
    /\ pc' = "process"
    /\ idx' = 1
    /\ UNCHANGED <<uploaded_files, coordinates, thumbnails, valid_images, valid_data,
                   reference_point, distances, sorted_distances, requests, messages,
                   outputs, route_returns, arg, ret>>

\* lines 122-143, one iteration; an exception that leaves extract_coordinates
\* ends the run
ProcessFile ==
    /\ pc = "process"
    /\ idx <= Len(sorted_files)
    /\ LET uploaded_file == sorted_files[idx]
           r == extract_coordinates(uploaded_file.data)
       IN  IF r.raised
           THEN /\ pc' = "crashed"
                /\ messages' = messages \o r.msgs
                /\ UNCHANGED <<coordinates, valid_images, thumbnails, valid_data, idx>>
           ELSE IF ~IsNone(r.coords)
           THEN /\ coordinates' = list_append(coordinates, r.coords)
                /\ valid_images' = list_append(valid_images, uploaded_file.name)
                /\ thumbnails' = list_append(thumbnails, Thumbnail(r.bytes))
                /\ valid_data' = list_append(valid_data,
                                             [Nama_File |-> uploaded_file.name,
                                              Latitude |-> r.coords.a,
                                              Longitude |-> r.coords.b])
                /\ messages' = messages \o r.msgs
                /\ idx' = idx + 1
                /\ pc' = pc
           ELSE /\ messages' = messages \o r.msgs \o <<NoGpsWarning(uploaded_file.name)>>
                /\ idx' = idx + 1
                /\ pc' = pc
                /\ UNCHANGED <<coordinates, valid_images, thumbnails, valid_data>>
    /\ UNCHANGED <<uploaded_files, sorted_files, reference_point, distances,
                   sorted_distances, requests, outputs, route_returns, arg, ret>>

\* lines 146-151
SetReference ==
    /\ pc = "process"
    /\ idx > Len(sorted_files)
    /\ coordinates # <<>>
    /\ reference_point' = first_point(coordinates)
    /\ distances' = <<>>
    /\ pc' = "route"
    /\ idx' = 1
    /\ UNCHANGED <<uploaded_files, sorted_files, coordinates, thumbnails, valid_images,
                   valid_data, sorted_distances, requests, messages, outputs, route_returns, arg, ret>>

\* lines 146 and 237-238
NoCoordinates ==
    /\ pc = "process"
    /\ idx > Len(sorted_files)
    /\ coordinates = <<>>
    /\ messages' = Append(messages, UploadHint)
    /\ pc' = "done"
    /\ UNCHANGED <<uploaded_files, sorted_files, coordinates, thumbnails, valid_images,
                   valid_data, reference_point, distances, sorted_distances, requests,
                   outputs, idx, route_returns, arg, ret>>

\* the pairs zip(coordinates, valid_images) yields
zip_len == IF Len(coordinates) <= Len(valid_images) THEN Len(coordinates)
           ELSE Len(valid_images)

\* lines 155-161; photo is the position of the row's photo in coordinates (it is
\* not a key of the dict: it records where the row came from)
Row(filename, coord, distance, duration, photo) ==
    [Nama_File |-> filename, Latitude |-> coord.a, Longitude |-> coord.b,
     Jarak_Meter |-> round2(distance.v), Durasi_Detik |-> round2(duration.v),
     photo |-> photo]

\* lines 152-163, one iteration, the service answering with response
RouteStep(response) ==
    /\ pc = "route"
    /\ idx <= zip_len
    /\ LET coord == coordinates[idx]
           filename == valid_images[idx]
           r == calculate_osrm_route(reference_point, coord, response)
           distance == r.ret[1]
           duration == r.ret[2]
       IN  /\ requests' = requests \o r.sent
           /\ route_returns' = Append(route_returns, r.ret)
           /\ IF ~IsNone(distance) /\ ~IsNone(duration)
              THEN /\ distances' = Append(distances,
                                          Row(filename, coord, distance, duration, idx))
                   /\ messages' = messages \o r.msgs
              ELSE /\ distances' = distances
                   /\ messages' = messages \o r.msgs \o <<RouteWarning(filename)>>
    /\ idx' = idx + 1
    /\ UNCHANGED <<uploaded_files, sorted_files, pc, coordinates, thumbnails,
                   valid_images, valid_data, reference_point, sorted_distances,
                   outputs, arg, ret>>

\* lines 178 and 190: the thumbnail looked up by the row's file name
thumbnail_of(row) == thumbnails[index(valid_images, row.Nama_File)]

\* lines 166-236
ShowResults ==
    /\ pc = "route"
    /\ idx > zip_len
    /\ LET sd == sorted(distances, [k \in DOMAIN distances |-> distances[k].Jarak_Meter])
       IN  /\ sorted_distances' = sd
           /\ outputs' =
                [table |-> sd,
                 grid |-> [k \in DOMAIN sd |->
                             [thumbnail |-> thumbnail_of(sd[k]),
                              caption |-> sd[k].Nama_File]],
                 map_location |-> reference_point,
                 markers |-> [k \in DOMAIN sd |->
                                [location |-> <<sd[k].Latitude, sd[k].Longitude>>,
                                 popup |-> thumbnail_of(sd[k]),
                                 tooltip |-> sd[k].Nama_File]],
                 excel |-> sd,
                 kml |-> [k \in DOMAIN sd |->
                            [name |-> sd[k].Nama_File,
                             coords |-> <<sd[k].Longitude, sd[k].Latitude>>]]]
    /\ pc' = "done"
    /\ UNCHANGED <<uploaded_files, sorted_files, coordinates, thumbnails, valid_images,
                   valid_data, reference_point, distances, requests, messages, idx,
                   route_returns, arg, ret>>

(***************************************************************************)
(* What the model uploads and what the service answers in a run.           *)
(***************************************************************************)
PositionA == [gps_latitude |-> <<0, 0, 1>>, gps_longitude |-> <<0, 1, 0>>,
              gps_latitude_ref |-> "N", gps_longitude_ref |-> "E"]

PositionB == [gps_latitude |-> <<1, 0, 0>>, gps_longitude |-> <<0, 0, 1>>,
              gps_latitude_ref |-> "S", gps_longitude_ref |-> "W"]

\* the contents of an uploaded file showing picture pic: a photo without GPS,
\* a photo with a latitude and nothing else, two photos with a full position
Contents(pic) ==
    { Bytes(TRUE, FALSE, FALSE, TRUE, Restrict(PositionA, {}), pic),
      Bytes(TRUE, FALSE, FALSE, TRUE, Restrict(PositionA, {"gps_latitude"}), pic),
      Bytes(TRUE, FALSE, FALSE, TRUE, PositionA, pic),
      Bytes(TRUE, FALSE, FALSE, TRUE, PositionB, pic) }

Uploads ==
    UNION { { [k \in 1..n |-> UploadedFile(k, names[k], [data[k] EXCEPT !.pic = k])] :
                names \in [1..n -> Names], data \in [1..n -> Contents(0)] }
            : n \in 0..MaxFiles }

Route(distance, duration) == [distance |-> distance, duration |-> duration]

Body(code, routes) == [code |-> code, routes |-> routes]

\* the answers of the service in a run: a network error, no route, a route
\* with one of three distances, a route whose distance is null
ScriptResponses ==
    { Response(TRUE, 0, FALSE, Body("", <<>>)),
      Response(FALSE, 200, TRUE, Body("NoRoute", <<>>)),
      Response(FALSE, 200, TRUE, Body("Ok", <<Route(None, Float(7))>>)) }
    \cup { Response(FALSE, 200, TRUE, Body("Ok", <<Route(Float(d), Float(7))>>)) :
             d \in {4, 12, 14} }

Init ==
    /\ uploaded_files \in Uploads
    /\ sorted_files = <<>>
    /\ pc = "sort"
    /\ coordinates = <<>>
    /\ thumbnails = <<>>
    /\ valid_images = <<>>
    /\ valid_data = <<>>
    /\ reference_point = None
    /\ distances = <<>>
    /\ sorted_distances = <<>>
    /\ requests = <<>>
    /\ messages = <<>>
    /\ outputs = None
    /\ idx = 0
    /\ route_returns = <<>>
    /\ arg = None
    /\ ret = None

RouteLoop == \E response \in ScriptResponses : RouteStep(response)

Next ==
    \/ SortFiles
    \/ ProcessFile
    \/ SetReference
    \/ NoCoordinates
    \/ RouteLoop
    \/ ShowResults

Spec == Init /\ [][Next]_vars

(***************************************************************************)
(* extract_coordinates called on its own, on every image of the bounds.    *)
(***************************************************************************)
AllTags == {Restrict(t, A) : t \in FullTags, A \in SUBSET GpsAttrs}

Images ==
    {Bytes(v, f, h, e, t, 0) : v \in BOOLEAN, f \in BOOLEAN, h \in BOOLEAN,
                               e \in BOOLEAN, t \in AllTags}

Idle ==
    /\ uploaded_files = <<>>
    /\ sorted_files = <<>>
    /\ coordinates = <<>>
    /\ thumbnails = <<>>
    /\ valid_images = <<>>
    /\ valid_data = <<>>
    /\ reference_point = None
    /\ distances = <<>>
    /\ sorted_distances = <<>>
    /\ requests = <<>>
    /\ messages = <<>>
    /\ outputs = None
    /\ idx = 0
    /\ route_returns = <<>>
    /\ ret = None

InitExtract ==
    /\ Idle
    /\ pc = "call"
    /\ arg \in Images

CallExtract ==
    /\ pc = "call"
    /\ arg.type = "bytes"
    /\ LET r == extract_coordinates(arg)
       IN  /\ ret' = r
           /\ messages' = messages \o r.msgs
           /\ pc' = IF r.raised THEN "raised" ELSE "returned"
    /\ UNCHANGED <<uploaded_files, sorted_files, coordinates, thumbnails, valid_images,
                   valid_data, reference_point, distances, sorted_distances, requests,
                   outputs, idx, route_returns, arg>>

SpecExtract == InitExtract /\ [][CallExtract]_vars

(***************************************************************************)
(* calculate_osrm_route called on its own, on every response of the        *)
(* bounds.                                                                 *)
(***************************************************************************)
JsonValues == {None} \cup {Float(x) : x \in 0..MaxVal}

RouteDicts ==
    {Restrict(r, A) : r \in [distance : JsonValues, duration : JsonValues],
                      A \in SUBSET {"distance", "duration"}}

Bodies ==
    {Restrict(b, A) : b \in [code : {"Ok", "NoRoute"},
                             routes : {<<>>} \cup {<<r>> : r \in RouteDicts}],
                      A \in SUBSET {"code", "routes"}}

Responses ==
    {Response(x, st, js, b) : x \in BOOLEAN, st \in {200, 404}, js \in BOOLEAN,
                              b \in Bodies}

Points == {Tuple2(to_decimal(<<0, 0, 1>>), to_decimal(<<0, 1, 0>>)),
           Tuple2(-to_decimal(<<1, 0, 0>>), -to_decimal(<<0, 0, 1>>))}

InitRoute ==
    /\ Idle
    /\ pc = "call"
    /\ arg \in [type : {"call"}, origin : Points, destination : Points,
                response : Responses]

CallRoute ==
    /\ pc = "call"
    /\ arg.type = "call"
    /\ LET r == calculate_osrm_route(arg.origin, arg.destination, arg.response)
       IN  /\ ret' = r.ret
           /\ messages' = messages \o r.msgs
           /\ requests' = requests \o r.sent
    /\ pc' = "returned"
    /\ UNCHANGED <<uploaded_files, sorted_files, coordinates, thumbnails, valid_images,
                   valid_data, reference_point, distances, sorted_distances, outputs,
                   idx, route_returns, arg>>

SpecRoute == InitRoute /\ [][CallRoute]_vars

(***************************************************************************)
(* The properties.                                                         *)
(***************************************************************************)
Range(s) == {s[k] : k \in DOMAIN s}

CountIn(s, x) == Cardinality({k \in DOMAIN s : s[k] = x})

Magnitude(x) == IF x < 0 THEN -x ELSE x

\* d + m/60 + s/3600 in units of 1/3600 degree
DegreesOf(dms) == 3600 * dms[1] + 60 * dms[2] + dms[3]

\* C1: when extract_coordinates returns coordinates, the latitude is
\* d + m/60 + s/3600 of gps_latitude, non-negative under reference N and negated
\* under S; the longitude likewise under E and W; the magnitude of each is
\* d + m/60 + s/3600 whatever the reference.
C1_DmsToDecimal ==
    (pc = "returned" /\ ~IsNone(ret.coords)) =>
        LET t == ret.bytes.tags
            lat == DegreesOf(t["gps_latitude"])
            lon == DegreesOf(t["gps_longitude"])
        IN  /\ t["gps_latitude_ref"] = "N" => (ret.coords.a = lat /\ ret.coords.a >= 0)
            /\ t["gps_latitude_ref"] = "S" => ret.coords.a = -lat
            /\ t["gps_longitude_ref"] = "E" => (ret.coords.b = lon /\ ret.coords.b >= 0)
            /\ t["gps_longitude_ref"] = "W" => ret.coords.b = -lon
            /\ Magnitude(ret.coords.a) = lat
            /\ Magnitude(ret.coords.b) = lon

\* a southern, eastern position with degrees, minutes and seconds all set
C1_Witness ==
    /\ pc = "returned"
    /\ ~IsNone(ret.coords)
    /\ arg.tags["gps_latitude"] = <<1, 1, 1>>
    /\ arg.tags["gps_longitude"] = <<0, 1, 1>>
    /\ arg.tags["gps_latitude_ref"] = "S"
    /\ arg.tags["gps_longitude_ref"] = "E"
    /\ ret.coords = Tuple2(-3661, 61)

\* C2: for every input, extract_coordinates returns coordinates with the image
\* bytes or returns (None, None); no exception leaves it.
C2_NoExceptionEscapes ==
    (pc \in {"returned", "raised"}) =>
        /\ pc = "returned"
        /\ \/ ~IsNone(ret.coords) /\ ~IsNone(ret.bytes)
           \/ IsNone(ret.coords) /\ IsNone(ret.bytes)

\* the response says status 200 and code Ok
RespondsOk(r) ==
    /\ ~r.raises
    /\ r.status_code = 200
    /\ r.is_json
    /\ "code" \in DOMAIN r.data
    /\ r.data["code"] = "Ok"

\* and its first route carries a distance and a duration
Readable(r) ==
    /\ RespondsOk(r)
    /\ "routes" \in DOMAIN r.data
    /\ Len(r.data["routes"]) > 0
    /\ {"distance", "duration"} \subseteq DOMAIN r.data["routes"][1]

\* C3 as stated: calculate_osrm_route returns a pair with both values present,
\* and only under status 200 and code Ok, or (None, None) together with exactly
\* one error message; never a mix.
C3_PairOrNothing ==
    (pc = "returned") =>
        /\ \/ ~IsNone(ret[1]) /\ ~IsNone(ret[2])
           \/ IsNone(ret[1]) /\ IsNone(ret[2])
        /\ ~IsNone(ret[1]) => (RespondsOk(arg.response) /\ messages = <<>>)
        /\ IsNone(ret[1]) => (Len(messages) = 1 /\ messages[1].level = "error")

\* C3 as amended: under status 200, code Ok and a first route with a distance and
\* a duration, calculate_osrm_route returns those two values as the response
\* gives them and shows no message; in every other case it shows exactly one
\* error message and returns (None, None).
C3_RouteResult ==
    (pc = "returned") =>
        IF Readable(arg.response)
        THEN /\ ret = <<arg.response.data["routes"][1]["distance"],
                        arg.response.data["routes"][1]["duration"]>>
             /\ messages = <<>>
        ELSE /\ ret = <<None, None>>
             /\ Len(messages) = 1
             /\ messages[1].level = "error"

\* a response with code Ok whose distance is null: the result is a mix
C3_Witness ==
    /\ pc = "returned"
    /\ Readable(arg.response)
    /\ IsNone(ret[1])
    /\ ~IsNone(ret[2])
    /\ messages = <<>>

\* the run has ended, by reaching the last line or by an exception
RunEnded == pc \in {"done", "crashed"}

\* C4: at the end of a run one routing request has been issued for each photo
\* that yielded coordinates: there are as many requests as coordinates, the k-th
\* request going to the k-th coordinates.
C4_OneRequestPerPhoto ==
    RunEnded =>
        /\ Len(requests) = Len(coordinates)
        /\ \A k \in DOMAIN requests :
             requests[k].destination = <<coordinates[k].b, coordinates[k].a>>

\* the four record lists
Lists == <<coordinates, valid_images, thumbnails, valid_data>>

\* entry i of the four lists comes from file f
EntryOf(i, f) ==
    /\ coordinates[i] = extract_coordinates(f.data).coords
    /\ valid_images[i] = f.name
    /\ thumbnails[i].pic = f.data.pic
    /\ valid_data[i] = [Nama_File |-> f.name, Latitude |-> coordinates[i].a,
                        Longitude |-> coordinates[i].b]

Aligned ==
    /\ \A k \in 1..4 : Len(Lists[k]) = Len(coordinates)
    /\ \A i \in DOMAIN coordinates : \E f \in Range(sorted_files) : EntryOf(i, f)

GrowTogether ==
    \/ Lists' = Lists
    \/ \A k \in 1..4 : /\ Len(Lists'[k]) = Len(Lists[k]) + 1
                       /\ SubSeq(Lists'[k], 1, Len(Lists[k])) = Lists[k]

C6_EveryFileOneOutcome ==
    (pc \in {"route", "done", "crashed"}) =>
        \A n \in Names :
            CountIn(valid_images, n) + CountIn(messages, NoGpsWarning(n))
              = Cardinality({k \in DOMAIN uploaded_files : uploaded_files[k].name = n})

Parses(f) == has_underscore(f.name) /\ strptime(f.name[1]).ok

TimeOf(f) == strptime(f.name[1]).t

\* C7: sorted_files holds the uploaded files, each once; of two files whose
\* names parse the earlier timestamp comes first, and equal timestamps keep
\* upload order; a file whose name does not parse comes after every file with
\* a timestamp before the run, and such files keep upload order.
C7_ChronologicalOrder ==
    (pc # "sort") =>
        /\ Len(sorted_files) = Len(uploaded_files)
        /\ Range(sorted_files) = Range(uploaded_files)
        /\ \A p \in DOMAIN sorted_files : \A q \in DOMAIN sorted_files :
             LET f == sorted_files[p]
                 g == sorted_files[q]
             IN  p < q =>
                   /\ (Parses(f) /\ Parses(g)) =>
                        \/ TimeOf(f) < TimeOf(g)
                        \/ TimeOf(f) = TimeOf(g) /\ f.file_id < g.file_id
                   /\ (~Parses(f) /\ Parses(g)) => TimeOf(g) >= NowStart
                   /\ (~Parses(f) /\ ~Parses(g)) => f.file_id < g.file_id

\* the second upload has the earlier timestamp and is processed first
C7_Witness ==
    /\ pc = "process"
    /\ idx = 2
    /\ Len(sorted_files) = 2
    /\ Parses(sorted_files[1])
    /\ Parses(sorted_files[2])
    /\ TimeOf(sorted_files[1]) < TimeOf(sorted_files[2])
    /\ sorted_files[1].file_id = 2

\* the positions of sorted_files that yield coordinates
WithGps == {k \in DOMAIN sorted_files :
              ~IsNone(extract_coordinates(sorted_files[k].data).coords)}

FirstWithGps == CHOOSE k \in WithGps : \A m \in WithGps : k <= m

RoutesFromReference ==
    /\ reference_point = extract_coordinates(sorted_files[FirstWithGps].data).coords
    /\ \A k \in DOMAIN requests :
         requests[k] = [origin |-> <<reference_point.b, reference_point.a>>,
                        destination |-> <<coordinates[k].b, coordinates[k].a>>]
    /\ \A r \in Range(distances) \cup Range(sorted_distances) :
         /\ r.photo \in DOMAIN requests
         /\ r.Latitude = coordinates[r.photo].a
         /\ r.Longitude = coordinates[r.photo].b
         /\ r.Jarak_Meter = round2(route_returns[r.photo][1].v)
         /\ r.Durasi_Detik = round2(route_returns[r.photo][2].v)

\* C8: in the route loop and after it, the reference point is the coordinates
\* of the first file in processing order that yielded coordinates, every request
\* goes from it to the photo's own coordinates, every row carries the result of
\* its photo's request, and no step of the loop changes the reference point.
C8_ReferencePoint ==
    /\ []((pc \in {"route", "done"} /\ coordinates # <<>>) => RoutesFromReference)
    /\ [][pc = "route" => reference_point' = reference_point]_vars

\* a photo without GPS is processed first and skipped; the second is the
\* reference point and the only row
C8_Witness ==
    /\ pc = "done"
    /\ Len(sorted_files) = 2
    /\ WithGps = {2}
    /\ reference_point = coordinates[1]
    /\ Len(sorted_distances) = 1

\* the k-th routing call returned a distance and a duration
Succeeded(k) == ~IsNone(route_returns[k][1]) /\ ~IsNone(route_returns[k][2])

\* the rows are in non-decreasing distance, equal distances in processing order
C9_Ordered ==
    \A p \in DOMAIN sorted_distances : \A q \in DOMAIN sorted_distances :
        p < q =>
          \/ sorted_distances[p].Jarak_Meter < sorted_distances[q].Jarak_Meter
          \/ /\ sorted_distances[p].Jarak_Meter = sorted_distances[q].Jarak_Meter
             /\ sorted_distances[p].photo < sorted_distances[q].photo

\* the rows are the photos whose routing call succeeded, each once
C9_Permutation ==
    /\ {sorted_distances[p].photo : p \in DOMAIN sorted_distances}
         = {k \in DOMAIN coordinates : Succeeded(k)}
    /\ Len(sorted_distances) = Cardinality({k \in DOMAIN coordinates : Succeeded(k)})
    /\ outputs.table = sorted_distances
    /\ outputs.excel = sorted_distances
    /\ Len(outputs.grid) = Len(sorted_distances)
    /\ Len(outputs.markers) = Len(sorted_distances)
    /\ Len(outputs.kml) = Len(sorted_distances)

\* every photo without a route has one warning of its name
C9_Warned ==
    \A n \in Names :
        CountIn(messages, RouteWarning(n))
          = Cardinality({k \in DOMAIN coordinates : ~Succeeded(k) /\ valid_images[k] = n})

\* a photo whose routing call returned (None, None) is in no output
C9_FailedAbsent ==
    \A k \in DOMAIN coordinates :
        route_returns[k] = <<None, None>> =>
            /\ \A p \in DOMAIN sorted_distances : sorted_distances[p].photo # k
            /\ \A p \in DOMAIN outputs.grid : outputs.grid[p].thumbnail # thumbnails[k]
            /\ \A p \in DOMAIN outputs.markers : outputs.markers[p].popup # thumbnails[k]

Rendered == pc = "done" /\ outputs # None

\* C9: sorted_distances is in non-decreasing distance, equal rounded distances in
\* processing order; it holds exactly the photos whose routing call succeeded,
\* each once; a photo whose call returned (None, None) is in none of the outputs
\* and has exactly one 'failed to compute route' warning.
C9_ResultList ==
    Rendered => (C9_Ordered /\ C9_Permutation /\ C9_Warned /\ C9_FailedAbsent)

\* the parts of C9 that do not involve the thumbnail lookup
C9_RowsOnly == Rendered => (C9_Ordered /\ C9_Permutation /\ C9_Warned)

\* C10: for every row, the thumbnail in the grid and the thumbnail in the map
\* popup are the thumbnail made from the row's own photo.
C10_OwnThumbnail ==
    Rendered =>
        \A p \in DOMAIN sorted_distances :
            /\ outputs.grid[p].thumbnail = thumbnails[sorted_distances[p].photo]
            /\ outputs.markers[p].popup = thumbnails[sorted_distances[p].photo]

\* C10 holds of the runs whose recorded photos have different names
C10_DistinctNames ==
    (Rendered /\ \A i \in DOMAIN valid_images : \A j \in DOMAIN valid_images :
                    valid_images[i] = valid_images[j] => i = j)
      => \A p \in DOMAIN sorted_distances :
            /\ outputs.grid[p].thumbnail = thumbnails[sorted_distances[p].photo]
            /\ outputs.markers[p].popup = thumbnails[sorted_distances[p].photo]

====
